---- MODULE Spec2Model ----
(***************************************************************************)
(* A model of tlru_cache (src/tlru_cache/__init__.py): the key builder     *)
(* _make_key, the four wrapper variants built by _tlru_cache_wrapper, and  *)
(* cache_info / cache_clear, run by several threads against one cache.     *)
(***************************************************************************)
EXTENDS Integers, Sequences, FiniteSets, TLC

(***************************************************************************)
(* Bounds of the model.                                                    *)
(***************************************************************************)
\* Number of threads using the cache.
NThreads == 2
\* Largest finite maxsize argument tried.
MaxSize == 2
\* The finite, non-negative lifetime tried.
Lifetime == 1
\* Clock reading when the cache is built (time.time() is far from 0.0).
StartTime == 4
\* How far the clock advances.
MaxTicks == 2
\* Calls are started only while hits + misses is below this.
MaxCount == 4

Threads == 1..NThreads

(***************************************************************************)
(* Optional values: None is the empty sequence, a value v is <<v>>.        *)
(***************************************************************************)
None == <<>>
Some(v) == <<v>>
IsNone(x) == x = <<>>
Val(x) == x[1]

(***************************************************************************)
(* Arguments.  A Python value is its runtime type and its value; values of *)
(* different numeric types with the same val compare (and hash) equal.     *)
(***************************************************************************)
PyVal(ty, v) == [type |-> ty, val |-> v]

\* The calls tried: positional and keyword arguments of each.
CallTable ==
  << [args |-> <<PyVal("int", "1")>>,   kwargs |-> <<>>],
     [args |-> <<PyVal("float", "1")>>, kwargs |-> <<>>],
     [args |-> <<>>, kwargs |-> <<[name |-> "a", value |-> PyVal("int", "1")]>>],
     [args |-> <<>>, kwargs |-> <<[name |-> "a", value |-> PyVal("float", "1")]>>],
     [args |-> <<PyVal("list", "[]")>>, kwargs |-> <<>>] >>

Calls == 1..Len(CallTable)

\* Types whose hash is cached: the fast path of _make_key.
fasttypes == {"int", "str"}

\* Types that cannot be hashed.
Unhashable == {"list"}

(***************************************************************************)
(* _make_key.  A key is a tuple of elements, or, on the fast path, the     *)
(* bare first element.  Elements are compared as Python compares them: a   *)
(* value by its val only, a type by its name.                              *)
(***************************************************************************)
ValElem(a)  == [tag |-> "val",  name |-> "",     val |-> a.val]
MarkElem    == [tag |-> "mark", name |-> "",     val |-> ""]
ItemElem(k) == [tag |-> "item", name |-> k.name, val |-> k.value.val]
TypeElem(a) == [tag |-> "type", name |-> "",     val |-> a.type]

\* A key builder that leaves the types out whatever typed is.
_make_keyMut(args, kwargs, ty) ==
  LET key0 == [i \in 1..Len(args) |-> ValElem(args[i])]
      key1 == IF kwargs # <<>>
                THEN key0 \o <<MarkElem>> \o [i \in 1..Len(kwargs) |-> ItemElem(kwargs[i])]
                ELSE key0
  IN  IF ~ty /\ Len(key1) = 1 /\ args[1].type \in fasttypes
        THEN [bare |-> TRUE,  elems |-> <<key1[1]>>]
        ELSE [bare |-> FALSE, elems |-> key1]

_make_key(args, kwargs, ty) ==
  LET key0 == [i \in 1..Len(args) |-> ValElem(args[i])]
      key1 == IF kwargs # <<>>
                THEN key0 \o <<MarkElem>> \o [i \in 1..Len(kwargs) |-> ItemElem(kwargs[i])]
                ELSE key0
      key2 == IF ty
                THEN key1 \o [i \in 1..Len(args) |-> TypeElem(args[i])]
                          \o (IF kwargs # <<>>
                                THEN [i \in 1..Len(kwargs) |-> TypeElem(kwargs[i].value)]
                                ELSE <<>>)
                ELSE key1
  IN  IF ~ty /\ Len(key2) = 1 /\ args[1].type \in fasttypes
        THEN [bare |-> TRUE,  elems |-> <<key2[1]>>]
        ELSE [bare |-> FALSE, elems |-> key2]

\* hash(key) raises TypeError when a value in the key is unhashable.
Hashable(c) ==
  /\ \A i \in 1..Len(CallTable[c].args) : CallTable[c].args[i].type \notin Unhashable
  /\ \A i \in 1..Len(CallTable[c].kwargs) : CallTable[c].kwargs[i].value.type \notin Unhashable

\* The key the wrapper builds for call c.
KeyOf(c, ty) == _make_key(CallTable[c].args, CallTable[c].kwargs, ty)

(***************************************************************************)
(* The wrapped computation: a deterministic function of its arguments that *)
(* tells any two calls apart (it returns the call itself).                 *)
(***************************************************************************)
user_function(c) == c

(***************************************************************************)
(* The OrderedDict: a sequence of entries, least recently used first.      *)
(***************************************************************************)
Entry(k, r, t) == [key |-> k, result |-> r, time |-> t]

\* A lookup that does not compare keys.
cache_getMut(c, k) == IF c # <<>> THEN 1 ELSE 0

\* Position of key k in cache c, 0 when absent (cache.get with the default).
cache_get(c, k) ==
  IF \E i \in 1..Len(c) : c[i].key = k
    THEN CHOOSE i \in 1..Len(c) : c[i].key = k
    ELSE 0

\* c without position i.
RemoveAt(c, i) == SubSeq(c, 1, i - 1) \o SubSeq(c, i + 1, Len(c))

\* cache.pop(key).
cache_pop(c, k) == RemoveAt(c, cache_get(c, k))

\* A move_to_end that leaves the order alone.
cache_moveMut(c, k) == c

\* cache.move_to_end(key, last=True).
cache_move(c, k) == RemoveAt(c, cache_get(c, k)) \o <<c[cache_get(c, k)]>>

\* cache.popitem(last=False).
cache_popitem(c) == Tail(c)

\* cache[key] = result, t: a new key goes to the end, a present key keeps
\* its position.
cache_set(c, k, r, t) ==
  IF cache_get(c, k) = 0
    THEN Append(c, Entry(k, r, t))
    ELSE [c EXCEPT ![cache_get(c, k)] = Entry(k, r, t)]

\* The keys of c, in order: list(cache).
KeysOf(c) == [i \in 1..Len(c) |-> c[i].key]


(***************************************************************************)
(* State.                                                                  *)
(***************************************************************************)
VARIABLES
  maxsize,   \* configuration: None or <<n>>
  lifetime,  \* configuration: None or <<l>>
  typed,     \* configuration: BOOLEAN
  cache,     \* the OrderedDict
  hits, misses, expired,
  lock,      \* 0 when free, otherwise the thread holding it
  clock,     \* what t_now() returns
  pc,        \* each thread's position
  call,      \* each thread's call in progress (0: none)
  now,       \* each thread's local `now`
  tmp,       \* each thread's loaded value of misses (maxsize == 0)
  todo,      \* each thread's remaining keys of list(cache) in cache_info
  path,      \* how a thread's call reached the computation: "absent",
             \* "evict" (absent, an entry evicted) or "stale"
  began,     \* history: the clock when a thread's call in progress was made
  recency,   \* history: keys in the store by their last touch, oldest first
  last       \* history: the last operation that completed and its outcome

vars == << maxsize, lifetime, typed, cache, hits, misses, expired, lock, clock,
           pc, call, now, tmp, todo, path, began, recency, last >>

config == << maxsize, lifetime, typed >>
stats  == << hits, misses, expired >>
locals == << call, now, tmp, todo, path, began >>

(***************************************************************************)
(* tlru_cache: the arguments tried and the clamping of a negative maxsize. *)
(***************************************************************************)
MaxsizeArgs  == {None} \cup {Some(m) : m \in -1..MaxSize}
LifetimeArgs == {None, Some(-1), Some(Lifetime)}

tlru_cache(m) == IF ~IsNone(m) /\ Val(m) < 0 THEN Some(0) ELSE m

(***************************************************************************)
(* Which wrapper _tlru_cache_wrapper builds.                               *)
(***************************************************************************)
Disabled  == IF IsNone(maxsize) THEN FALSE ELSE Val(maxsize) = 0
Unbounded == IsNone(maxsize)
NoExpiry  == IF IsNone(lifetime) THEN TRUE ELSE Val(lifetime) < 0
BasicLRU  == ~Disabled /\ ~Unbounded /\ NoExpiry
TimedLRU  == ~Disabled /\ ~Unbounded /\ ~NoExpiry

\* The size test off by one: cache_len() > maxsize.
FullMut(c) == IF IsNone(maxsize) THEN FALSE ELSE Len(c) > Val(maxsize)

\* maxsize is not None and cache_len() >= maxsize
Full(c) == IF IsNone(maxsize) THEN FALSE ELSE Len(c) >= Val(maxsize)

\* The freshness test with < for <=.
FreshMut(n, added) == n - added < Val(lifetime)

\* now - time_added <= lifetime
Fresh(n, added) == n - added <= Val(lifetime)

\* The sweep test taking a lifetime of None for 0.
SweepStaleMut(added) == clock - added > (IF IsNone(lifetime) THEN 0 ELSE Val(lifetime))

\* lifetime is not None and t_now() - cache[key][1] > lifetime
SweepStale(added) == IF IsNone(lifetime) THEN FALSE ELSE clock - added > Val(lifetime)

(***************************************************************************)
(* The history record of the last completed operation: what it was, its    *)
(* call, what it returned (<<>> when it raised or returned None), the      *)
(* clock when a locked wrapper's miss was called, whether it repeated the  *)
(* call of a successful miss completed just before it, whether its key was *)
(* in the store emptied by a cache_clear completed just before it, and,    *)
(* for a cache_clear, the keys it dropped.                                 *)
(***************************************************************************)
Last(o, c, v, at, a, r) ==
  [op |-> o, call |-> c, val |-> v, at |-> at, again |-> a, recached |-> r, keys |-> {}]

LastClear(ks) ==
  [op |-> "clear", call |-> 0, val |-> <<>>, at |-> 0, again |-> FALSE,
   recached |-> FALSE, keys |-> ks]

\* The tuple cache_info returns.
_TLRUCacheInfo(h, m, ms, cs, lt, e) == <<h, m, ms, cs, lt, e>>

\* The call repeats the successful miss that completed last.
Again(c) == last.op = "miss" /\ last.call = c

\* The call's key was in the store that the last operation, a cache_clear, emptied.
Recached(c) == last.op = "clear" /\ KeyOf(c, typed) \in last.keys

\* recency after key k is touched / after it is removed / cut down to cache c.
Touch(r, k)  == SelectSeq(r, LAMBDA x : x # k) \o <<k>>
Forget(r, k) == SelectSeq(r, LAMBDA x : x # k)
Keep(r, c)   == SelectSeq(r, LAMBDA x : cache_get(c, x) # 0)

Init ==
  /\ \E m \in MaxsizeArgs : maxsize = tlru_cache(m)
  /\ lifetime \in LifetimeArgs
  /\ typed \in BOOLEAN
  /\ cache = <<>>
  /\ hits = 0 /\ misses = 0 /\ expired = 0
  /\ lock = 0
  /\ clock = StartTime
  /\ pc = [t \in Threads |-> "idle"]
  /\ call = [t \in Threads |-> 0]
  /\ now = [t \in Threads |-> 0]
  /\ tmp = [t \in Threads |-> 0]
  /\ todo = [t \in Threads |-> <<>>]
  /\ path = [t \in Threads |-> ""]
  /\ began = [t \in Threads |-> 0]
  /\ recency = <<>>
  /\ last = Last("none", 0, <<>>, 0, FALSE, FALSE)


(***************************************************************************)
(* wrapper, maxsize == 0: no caching and no lock; misses += 1 is a load    *)
(* followed by a store.  The wrapper does not look at its arguments before *)
(* it hands them to user_function, so the call is drawn at that step.      *)
(***************************************************************************)
DisabledLoad(t) ==
  /\ Disabled
  /\ pc[t] = "idle"
  /\ misses < MaxCount
  /\ tmp' = [tmp EXCEPT ![t] = misses]
  /\ pc' = [pc EXCEPT ![t] = "d_store"]
  /\ UNCHANGED << config, cache, stats, lock, clock, call, now, todo, path, began, recency, last >>

\* The store of misses += 1, then return user_function(*args, **kwargs),
\* which returns or raises.
DisabledCall(t, c) ==
  /\ pc[t] = "d_store"
  /\ misses' = tmp[t] + 1
  /\ \E ok \in BOOLEAN :
       last' = IF ok THEN Last("miss", c, <<user_function(c)>>, 0, Again(c), FALSE)
                     ELSE Last("fail", c, <<>>, 0, FALSE, FALSE)
  /\ pc' = [pc EXCEPT ![t] = "idle"]
  /\ tmp' = [tmp EXCEPT ![t] = 0]
  /\ UNCHANGED << config, cache, hits, expired, lock, clock, call, now, todo, path, began, recency >>

(***************************************************************************)
(* The locked wrappers.  Each takes the lock, looks the key up and either  *)
(* returns (a hit, or a TypeError for an unhashable key) or counts a miss  *)
(* and goes on, the lock still held, to the computation.                   *)
(***************************************************************************)
\* The lookup raising with the lock left held.
LookupRaisesHeld(t, c) ==
  /\ last' = Last("TypeError", c, <<>>, 0, FALSE, FALSE)
  /\ lock' = t
  /\ UNCHANGED << cache, stats, pc, locals, recency >>

\* The lookup raising after the miss has been counted.
LookupRaisesMut(t, c) ==
  /\ last' = Last("TypeError", c, <<>>, 0, FALSE, FALSE)
  /\ misses' = misses + 1
  /\ UNCHANGED << cache, hits, expired, lock, pc, locals, recency >>

\* The lookup raised: the with statement releases the lock.
LookupRaises(t, c) ==
  /\ last' = Last("TypeError", c, <<>>, 0, FALSE, FALSE)
  /\ UNCHANGED << cache, stats, lock, pc, locals, recency >>

\* A hit that stamps the entry with the time of the hit.
HitRenews(t, c, newcache) ==
  /\ hits' = hits + 1
  /\ cache' = [newcache EXCEPT ![Len(newcache)].time = clock]
  /\ recency' = Touch(recency, KeyOf(c, typed))
  /\ last' = Last("hit", c, <<cache[cache_get(cache, KeyOf(c, typed))].result>>,
                  0, Again(c), Recached(c))
  /\ UNCHANGED << misses, expired, lock, pc, locals >>

\* hits += 1; return result
Hit(t, c, newcache) ==
  /\ hits' = hits + 1
  /\ cache' = newcache
  /\ recency' = Touch(recency, KeyOf(c, typed))
  /\ last' = Last("hit", c, <<cache[cache_get(cache, KeyOf(c, typed))].result>>,
                  0, Again(c), Recached(c))
  /\ UNCHANGED << misses, expired, lock, pc, locals >>

\* A miss that leaves the critical section before the computation.
MissUnlocked(t, c, newcache, how, n) ==
  /\ misses' = misses + 1
  /\ cache' = newcache
  /\ recency' = Keep(recency, newcache)
  /\ lock' = 0
  /\ pc' = [pc EXCEPT ![t] = "compute"]
  /\ call' = [call EXCEPT ![t] = c]
  /\ path' = [path EXCEPT ![t] = how]
  /\ now' = [now EXCEPT ![t] = n]
  /\ began' = [began EXCEPT ![t] = clock]
  /\ UNCHANGED << hits, tmp, todo, last >>

\* A miss that puts off the removal until the result is stored.
MissDefers(t, c, newcache, how, n) ==
  /\ misses' = misses + 1
  /\ UNCHANGED << cache, recency >>
  /\ lock' = t
  /\ pc' = [pc EXCEPT ![t] = "compute"]
  /\ call' = [call EXCEPT ![t] = c]
  /\ path' = [path EXCEPT ![t] = how]
  /\ now' = [now EXCEPT ![t] = n]
  /\ began' = [began EXCEPT ![t] = clock]
  /\ UNCHANGED << hits, tmp, todo, last >>

\* misses += 1, then on to user_function with the lock held
Miss(t, c, newcache, how, n) ==
  /\ misses' = misses + 1
  /\ cache' = newcache
  /\ recency' = Keep(recency, newcache)
  /\ lock' = t
  /\ pc' = [pc EXCEPT ![t] = "compute"]
  /\ call' = [call EXCEPT ![t] = c]
  /\ path' = [path EXCEPT ![t] = how]
  /\ now' = [now EXCEPT ![t] = n]
  /\ began' = [began EXCEPT ![t] = clock]
  /\ UNCHANGED << hits, tmp, todo, last >>

\* Simple caching with no size or time constraint (maxsize is None).
UnboundedLookup(t, c) ==
  /\ Unbounded
  /\ pc[t] = "idle" /\ lock = 0
  /\ hits + misses < MaxCount
  /\ IF ~Hashable(c)
       THEN LookupRaises(t, c)
       ELSE IF cache_get(cache, KeyOf(c, typed)) # 0
              THEN Hit(t, c, cache)
              ELSE Miss(t, c, cache, "absent", 0) /\ UNCHANGED expired
  /\ UNCHANGED << config, clock >>

\* Basic LRU cache (lifetime is None or lifetime < 0).
LRULookup(t, c) ==
  /\ BasicLRU
  /\ pc[t] = "idle" /\ lock = 0
  /\ hits + misses < MaxCount
  /\ IF ~Hashable(c)
       THEN LookupRaises(t, c)
       ELSE IF cache_get(cache, KeyOf(c, typed)) # 0
              THEN Hit(t, c, cache_move(cache, KeyOf(c, typed)))
              ELSE /\ Miss(t, c, IF Full(cache) THEN cache_popitem(cache) ELSE cache,
                           IF Full(cache) THEN "evict" ELSE "absent", 0)
                   /\ UNCHANGED expired
  /\ UNCHANGED << config, clock >>

\* Timed LRU cache.
TLRULookup(t, c) ==
  /\ TimedLRU
  /\ pc[t] = "idle" /\ lock = 0
  /\ hits + misses < MaxCount
  /\ IF ~Hashable(c)
       THEN LookupRaises(t, c)
       ELSE LET key == KeyOf(c, typed)
                idx == cache_get(cache, key)
            IN  IF idx # 0
                  THEN IF Fresh(clock, cache[idx].time)
                         THEN Hit(t, c, cache_move(cache, key))
                         ELSE /\ Miss(t, c, cache_pop(cache, key), "stale", clock)
                              /\ expired' = expired + 1
                  ELSE /\ Miss(t, c, IF Full(cache) THEN cache_popitem(cache) ELSE cache,
                               IF Full(cache) THEN "evict" ELSE "absent", clock)
                       /\ UNCHANGED expired
  /\ UNCHANGED << config, clock >>

\* The timed wrapper storing 0.0 as the other wrappers do.
StoredTimeMut(t) == 0

\* The timestamp stored with a result.
StoredTime(t) == IF TimedLRU THEN now[t] ELSE 0

\* A wrapper that takes the miss back when user_function raises.
ComputeMut(t) ==
  /\ pc[t] = "compute"
  /\ \E ok \in BOOLEAN :
       IF ok
         THEN /\ cache' = cache_set(cache, KeyOf(call[t], typed),
                                    user_function(call[t]), StoredTime(t))
              /\ recency' = Touch(recency, KeyOf(call[t], typed))
              /\ last' = Last("miss", call[t], <<user_function(call[t])>>,
                               began[t], Again(call[t]), Recached(call[t]))
              /\ UNCHANGED misses
         ELSE /\ UNCHANGED << cache, recency >>
              /\ misses' = misses - 1
              /\ last' = Last("fail", call[t], <<>>, began[t], FALSE, FALSE)
  /\ lock' = 0
  /\ pc' = [pc EXCEPT ![t] = "idle"]
  /\ call' = [call EXCEPT ![t] = 0]
  /\ path' = [path EXCEPT ![t] = ""]
  /\ now' = [now EXCEPT ![t] = 0]
  /\ began' = [began EXCEPT ![t] = 0]
  /\ UNCHANGED << config, hits, expired, clock, tmp, todo >>

\* result = user_function(*args, **kwargs); cache[key] = result, <time>
\* and the lock is released; or user_function raises and only the lock is
\* released.
Compute(t) ==
  /\ pc[t] = "compute"
  /\ \E ok \in BOOLEAN :
       IF ok
         THEN /\ cache' = cache_set(cache, KeyOf(call[t], typed),
                                    user_function(call[t]), StoredTime(t))
              /\ recency' = Touch(recency, KeyOf(call[t], typed))
              /\ last' = Last("miss", call[t], <<user_function(call[t])>>,
                               began[t], Again(call[t]), Recached(call[t]))
         ELSE /\ UNCHANGED << cache, recency >>
              /\ last' = Last("fail", call[t], <<>>, began[t], FALSE, FALSE)
  /\ lock' = 0
  /\ pc' = [pc EXCEPT ![t] = "idle"]
  /\ call' = [call EXCEPT ![t] = 0]
  /\ path' = [path EXCEPT ![t] = ""]
  /\ now' = [now EXCEPT ![t] = 0]
  /\ began' = [began EXCEPT ![t] = 0]
  /\ UNCHANGED << config, stats, clock, tmp, todo >>

(***************************************************************************)
(* cache_info: under the lock, sweep list(cache), then build the tuple.    *)
(***************************************************************************)
InfoAcquire(t) ==
  /\ pc[t] = "idle" /\ lock = 0
  /\ lock' = t
  /\ todo' = [todo EXCEPT ![t] = KeysOf(cache)]
  /\ pc' = [pc EXCEPT ![t] = "sweep"]
  /\ UNCHANGED << config, cache, stats, clock, call, now, tmp, path, began, recency, last >>

\* A sweep that counts what it removes as expired.
InfoSweepMut(t) ==
  /\ pc[t] = "sweep" /\ todo[t] # <<>>
  /\ LET key == Head(todo[t])
     IN  IF SweepStale(cache[cache_get(cache, key)].time)
           THEN /\ cache' = cache_pop(cache, key)
                /\ recency' = Forget(recency, key)
                /\ expired' = expired + 1
           ELSE UNCHANGED << cache, recency, expired >>
  /\ todo' = [todo EXCEPT ![t] = Tail(todo[t])]
  /\ UNCHANGED << config, hits, misses, lock, clock, pc, call, now, tmp, path, began, last >>

\* One iteration of the loop; t_now() is read in each.
InfoSweep(t) ==
  /\ pc[t] = "sweep" /\ todo[t] # <<>>
  /\ LET key == Head(todo[t])
     IN  IF SweepStale(cache[cache_get(cache, key)].time)
           THEN /\ cache' = cache_pop(cache, key)
                /\ recency' = Forget(recency, key)
           ELSE UNCHANGED << cache, recency >>
  /\ todo' = [todo EXCEPT ![t] = Tail(todo[t])]
  /\ UNCHANGED << config, stats, lock, clock, pc, call, now, tmp, path, began, last >>

InfoReturn(t) ==
  /\ pc[t] = "sweep" /\ todo[t] = <<>>
  /\ last' = Last("info", 0,
                  _TLRUCacheInfo(hits, misses, maxsize, Len(cache), lifetime, expired),
                  0, FALSE, FALSE)
  /\ lock' = 0
  /\ pc' = [pc EXCEPT ![t] = "idle"]
  /\ UNCHANGED << config, cache, stats, clock, locals, recency >>

(***************************************************************************)
(* cache_clear.                                                            *)
(***************************************************************************)
\* A clear that resets hits and misses only.
ClearMut(t) ==
  /\ pc[t] = "idle" /\ lock = 0
  /\ cache' = <<>>
  /\ hits' = 0 /\ misses' = 0
  /\ recency' = <<>>
  /\ last' = LastClear({cache[i].key : i \in 1..Len(cache)})
  /\ UNCHANGED << config, expired, lock, clock, pc, locals >>

Clear(t) ==
  /\ pc[t] = "idle" /\ lock = 0
  /\ cache' = <<>>
  /\ hits' = 0 /\ misses' = 0 /\ expired' = 0
  /\ recency' = <<>>
  /\ last' = LastClear({cache[i].key : i \in 1..Len(cache)})
  /\ UNCHANGED << config, lock, clock, pc, locals >>

(***************************************************************************)
(* Time passes.  With lifetime None nothing reads the clock that the store *)
(* or a result depends on, and the clock is left where it is.              *)
(***************************************************************************)
Tick ==
  /\ ~IsNone(lifetime)
  /\ clock < StartTime + MaxTicks
  /\ clock' = clock + 1
  /\ UNCHANGED << config, cache, stats, lock, pc, locals, recency, last >>

Next ==
  \/ \E t \in Threads : DisabledLoad(t)
  \/ \E t \in Threads, c \in Calls : DisabledCall(t, c)
  \/ \E t \in Threads, c \in Calls : UnboundedLookup(t, c)
  \/ \E t \in Threads, c \in Calls : LRULookup(t, c)
  \/ \E t \in Threads, c \in Calls : TLRULookup(t, c)
  \/ \E t \in Threads : Compute(t)
  \/ \E t \in Threads : InfoAcquire(t)
  \/ \E t \in Threads : InfoSweep(t)
  \/ \E t \in Threads : InfoReturn(t)
  \/ \E t \in Threads : Clear(t)
  \/ Tick

Spec == Init /\ [][Next]_vars

(***************************************************************************)
(* A computation that re-enters the cache: while it runs for a call of     *)
(* thread t it calls, in the same thread, the wrapped function again       *)
(* (recursion), cache_info or cache_clear, and returns when that nested    *)
(* operation has returned.  pc[t] names the nested operation the thread is *)
(* at.  The nested call of the recursion does not re-enter.                *)
(***************************************************************************)
NestedOps == {"nested_call", "nested_info", "nested_clear"}

\* What the last record is when a call whose computation re-entered the
\* cache has returned.
Reentered(c) == Last("reentrant", c, <<user_function(c)>>, 0, FALSE, FALSE)

\* maxsize == 0: the store of misses += 1, then user_function, which gets
\* to its nested operation n.  As in DisabledCall, the arguments are drawn
\* where they are first looked at: when the computation returns its value.
ReenterDisabled(t, n) ==
  /\ pc[t] = "d_store"
  /\ misses' = tmp[t] + 1
  /\ pc' = [pc EXCEPT ![t] = n]
  /\ tmp' = [tmp EXCEPT ![t] = 0]
  /\ UNCHANGED << config, cache, hits, expired, lock, clock, call, now, todo, path, began,
                  recency, last >>

\* The locked wrappers: user_function, called with the lock held, gets to
\* its nested operation n.
Reenter(t, n) ==
  /\ pc[t] = "compute"
  /\ pc' = [pc EXCEPT ![t] = n]
  /\ UNCHANGED << config, cache, stats, lock, clock, locals, recency, last >>

\* The outer frame after its nested operation returned: the disabled
\* wrapper returns the computation's value, a locked wrapper is back in
\* its computation.
Resume(t) ==
  IF Disabled
    THEN /\ pc' = [pc EXCEPT ![t] = "idle"]
         /\ \E c \in Calls : last' = Reentered(c)
         /\ UNCHANGED call
    ELSE /\ pc' = [pc EXCEPT ![t] = "compute"]
         /\ UNCHANGED << call, last >>

\* The nested call of the wrapped function starts.  The maxsize == 0
\* wrapper takes no lock and loads misses; the locked wrappers begin with
\* `with lock:`, which waits until the lock is free.  (The count of calls is
\* bounded here as it is in DisabledLoad.)
NestedLoad(t) ==
  /\ pc[t] = "nested_call"
  /\ IF Disabled
       THEN /\ misses < MaxCount
            /\ tmp' = [tmp EXCEPT ![t] = misses]
            /\ pc' = [pc EXCEPT ![t] = "nested_store"]
            /\ UNCHANGED lock
       ELSE /\ lock = 0
            /\ lock' = t
            /\ pc' = [pc EXCEPT ![t] = "nested_lookup"]
            /\ UNCHANGED tmp
  /\ UNCHANGED << config, cache, stats, clock, call, now, todo, path, began, recency, last >>

\* maxsize == 0: the nested call stores misses and returns its
\* computation's value, and the outer computation returns.
NestedStore(t) ==
  /\ pc[t] = "nested_store"
  /\ misses' = tmp[t] + 1
  /\ tmp' = [tmp EXCEPT ![t] = 0]
  /\ Resume(t)
  /\ UNCHANGED << config, cache, hits, expired, lock, clock, now, todo, path, began, recency >>

\* The nested cache_info: with lock, the sweep, the tuple.
NestedInfo(t) ==
  /\ pc[t] = "nested_info"
  /\ lock = 0
  /\ cache' = SelectSeq(cache, LAMBDA e : ~SweepStale(e.time))
  /\ recency' = Keep(recency, cache')
  /\ Resume(t)
  /\ UNCHANGED << config, stats, lock, clock, now, tmp, todo, path, began >>

\* The nested cache_clear: with lock, clear and reset.
NestedClear(t) ==
  /\ pc[t] = "nested_clear"
  /\ lock = 0
  /\ cache' = <<>>
  /\ hits' = 0 /\ misses' = 0 /\ expired' = 0
  /\ recency' = <<>>
  /\ Resume(t)
  /\ UNCHANGED << config, lock, clock, now, tmp, todo, path, began >>

NextReentrant ==
  \/ Next
  \/ \E t \in Threads, n \in NestedOps : ReenterDisabled(t, n)
  \/ \E t \in Threads, n \in NestedOps : Reenter(t, n)
  \/ \E t \in Threads : NestedLoad(t)
  \/ \E t \in Threads : NestedStore(t)
  \/ \E t \in Threads : NestedInfo(t)
  \/ \E t \in Threads : NestedClear(t)

ReentrantSpec == Init /\ [][NextReentrant]_vars

(***************************************************************************)
(* Fair scheduling: a thread that is inside an operation and can take its  *)
(* next step eventually takes it.  For Compute this is also the assumption *)
(* that user_function returns or raises.  Nothing obliges a thread to      *)
(* start an operation.                                                     *)
(***************************************************************************)
Fairness ==
  \A t \in Threads :
    /\ WF_vars(Compute(t))
    /\ WF_vars(InfoSweep(t))
    /\ WF_vars(InfoReturn(t))
    /\ WF_vars(\E c \in Calls : DisabledCall(t, c))

FairSpec == Spec /\ Fairness


(***************************************************************************)
(* Definitions used to state the properties.                               *)
(***************************************************************************)
\* A lookup step of call c by thread t in one of the locked wrappers.
Lookup(t, c) == UnboundedLookup(t, c) \/ LRULookup(t, c) \/ TLRULookup(t, c)

KeySet(c) == {c[i].key : i \in 1..Len(c)}

\* maxsize is finite and at least 1.
Bounded == IF IsNone(maxsize) THEN FALSE ELSE Val(maxsize) >= 1

\* In the timed wrapper, the key of call c is stored with age > lifetime.
StaleCall(c) ==
  /\ TimedLRU
  /\ Hashable(c)
  /\ \E i \in 1..Len(cache) :
       cache[i].key = KeyOf(c, typed) /\ clock - cache[i].time > Val(lifetime)

(***************************************************************************)
(* C1.  Bounded size: with a finite maxsize >= 1 the store never holds     *)
(* more than maxsize entries, whatever calls (failing ones and concurrent  *)
(* ones included), cache_info and cache_clear operations were made, and    *)
(* the currsize cache_info reports is at most maxsize.                     *)
(***************************************************************************)
C1_BoundedSize ==
  Bounded =>
    /\ Len(cache) <= Val(maxsize)
    /\ last.op = "info" => last.val[4] <= Val(maxsize)

\* A miss completed on a store that was full: an entry was evicted for it.
C1_Witness ==
  /\ Bounded
  /\ last.op = "miss"
  /\ Len(cache) = Val(maxsize)
  /\ misses > Val(maxsize)

(***************************************************************************)
(* C2 as stated: every call that returns yields the computation's value    *)
(* for that call's own arguments.                                          *)
(***************************************************************************)
C2_Original ==
  last.op \in {"hit", "miss"} => last.val = <<user_function(last.call)>>

(***************************************************************************)
(* C2, amended.  A freshly computed call yields the computation's value    *)
(* for its own arguments; a call served from the store yields the value    *)
(* the computation gave for arguments that have the same key as the        *)
(* call's; every stored entry holds the computation's result for arguments *)
(* that have the entry's key.                                              *)
(***************************************************************************)
C2_Memoization ==
  /\ last.op = "miss" => last.val = <<user_function(last.call)>>
  /\ last.op = "hit" =>
       \E c \in Calls : /\ KeyOf(c, typed) = KeyOf(last.call, typed)
                        /\ last.val = <<user_function(c)>>
  /\ \A i \in 1..Len(cache) :
       \E c \in Calls : /\ KeyOf(c, typed) = cache[i].key
                        /\ cache[i].result = user_function(c)

\* A hit served the value computed for other arguments with the same key.
C2_Witness ==
  /\ last.op = "hit"
  /\ last.val # <<user_function(last.call)>>

(***************************************************************************)
(* C3.  LRU eviction order: in the bounded wrappers a call for an absent   *)
(* key that finds the store at maxsize evicts exactly one entry, the one   *)
(* whose last touch (insertion or fresh hit) is the oldest; a hit moves    *)
(* its entry to the most-recently-used end; the store's order is the order *)
(* of last touches.                                                        *)
(***************************************************************************)
C3_EvictionOrder ==
  [][ /\ \A t \in Threads, c \in Calls :
           ((LRULookup(t, c) \/ TLRULookup(t, c)) /\ Hashable(c)) =>
             /\ (KeyOf(c, typed) \notin KeySet(cache) /\ Len(cache) = Val(maxsize)) =>
                  /\ Len(cache') = Len(cache) - 1
                  /\ KeySet(cache) \ KeySet(cache') = {Head(recency)}
                  /\ pc'[t] = "compute"
             /\ (KeyOf(c, typed) \in KeySet(cache) /\ ~StaleCall(c)) =>
                  /\ pc'[t] = "idle"
                  /\ hits' = hits + 1
                  /\ cache'[Len(cache')].key = KeyOf(c, typed)
                  /\ KeySet(cache') = KeySet(cache)
      /\ (BasicLRU \/ TimedLRU) => KeysOf(cache') = recency'
    ]_vars

\* An entry was evicted for a call in progress right after a hit, and the
\* entry that was hit is still stored.
C3_Witness ==
  \E t \in Threads :
    /\ pc[t] = "compute"
    /\ path[t] = "evict"
    /\ last.op = "hit"
    /\ KeyOf(last.call, typed) \in KeySet(cache)

(***************************************************************************)
(* C4.  TTL expiry: in the timed wrapper a call whose key is stored with   *)
(* age > lifetime counts one miss and one expired and no hit, removes only *)
(* the stale entry and invokes the computation; when the computation       *)
(* returns the key is re-inserted at the most-recently-used end, so the    *)
(* store is as large as before the call (nothing changes the store while   *)
(* the computation runs).  No other step increments expired.               *)
(***************************************************************************)
C4_Expiry ==
  [][ /\ \A t \in Threads, c \in Calls :
           (TLRULookup(t, c) /\ StaleCall(c)) =>
             /\ misses' = misses + 1
             /\ expired' = expired + 1
             /\ hits' = hits
             /\ pc'[t] = "compute"
             /\ Len(cache') = Len(cache) - 1
             /\ KeySet(cache') = KeySet(cache) \ {KeyOf(c, typed)}
      /\ \A t \in Threads :
           (Compute(t) /\ path[t] = "stale" /\ last'.op = "miss") =>
             /\ Len(cache') = Len(cache) + 1
             /\ cache'[Len(cache')].key = KeyOf(call[t], typed)
             /\ stats' = stats
      /\ \A t \in Threads :
           (pc[t] = "compute" /\ pc'[t] = "compute") => cache' = cache
      /\ expired' # expired =>
           \/ expired' = 0
           \/ \E t \in Threads, c \in Calls : TLRULookup(t, c) /\ StaleCall(c)
    ]_vars

\* A call repeated right after its own miss was stale and was computed and
\* stored again, and the store is at maxsize.
C4_Witness ==
  /\ TimedLRU
  /\ last.op = "miss"
  /\ last.again
  /\ expired >= 1
  /\ Len(cache) = Val(maxsize)

(***************************************************************************)
(* C5.  Idempotent hit: in the locked wrappers (maxsize not 0) a call      *)
(* repeated right after its own successful miss, with no more than         *)
(* lifetime elapsed since that miss was called when expiry is enabled, is  *)
(* a hit: it increments hits only, invokes no computation and returns the  *)
(* stored value.  The miss before it stored the entry.                     *)
(***************************************************************************)
C5_IdempotentHit ==
  [][ /\ \A t \in Threads, c \in Calls :
           (Lookup(t, c) /\ Again(c) /\ (TimedLRU => clock - last.at <= Val(lifetime))) =>
             /\ hits' = hits + 1
             /\ misses' = misses
             /\ expired' = expired
             /\ pc' = pc
             /\ last'.op = "hit"
             /\ last'.val = <<user_function(c)>>
      /\ \A t \in Threads :
           (Compute(t) /\ last'.op = "miss") =>
             /\ KeyOf(call[t], typed) \in KeySet(cache')
             /\ stats' = stats
    ]_vars

\* A call repeated right after its miss was served as a hit, in the timed
\* wrapper.
C5_Witness ==
  /\ TimedLRU
  /\ last.op = "hit"
  /\ last.again
  /\ last.val = <<user_function(last.call)>>

(***************************************************************************)
(* C6.  Clear resets: cache_clear empties the store, zeroes hits, misses   *)
(* and expired and leaves maxsize, lifetime and typed alone; a call that   *)
(* follows it with a key that was stored before is a miss that invokes the *)
(* computation, with misses = 1 and hits = 0 after it.                     *)
(***************************************************************************)
C6_ClearResets ==
  [][ /\ \A t \in Threads :
           Clear(t) =>
             /\ cache' = <<>>
             /\ hits' = 0 /\ misses' = 0 /\ expired' = 0
             /\ config' = config
      /\ \A t \in Threads, c \in Calls :
           (Lookup(t, c) /\ Recached(c)) =>
             /\ pc'[t] = "compute"
             /\ misses' = 1 /\ hits' = 0
      /\ \A t \in Threads :
           (Compute(t) /\ Recached(call[t])) =>
             /\ misses' = 1 /\ hits' = 0
             /\ last'.op \in {"miss", "fail"}
    ]_vars

\* A key stored before a cache_clear was called right after it and computed
\* again.
C6_Witness ==
  /\ last.op = "miss"
  /\ last.recached
  /\ misses = 1 /\ hits = 0

(***************************************************************************)
(* C7 as stated: the lock is not held while the wrapped computation runs.  *)
(***************************************************************************)
C7_LockFreeWhileComputing ==
  \A t \in Threads : pc[t] = "compute" => lock = 0

(***************************************************************************)
(* C8 as stated: with maxsize None and a finite lifetime, a call whose key *)
(* is stored with age > lifetime (here: the key stored by the miss         *)
(* completed last, called more than lifetime ago) counts a miss and an     *)
(* expired, is recomputed and is not served as a hit.                      *)
(***************************************************************************)
C8_UnboundedExpiry ==
  [][ \A t \in Threads, c \in Calls :
        ( /\ UnboundedLookup(t, c)
          /\ ~NoExpiry
          /\ Hashable(c)
          /\ last.op = "miss"
          /\ KeyOf(last.call, typed) = KeyOf(c, typed)
          /\ clock - last.at > Val(lifetime) ) =>
          /\ misses' = misses + 1
          /\ expired' = expired + 1
          /\ hits' = hits
          /\ pc'[t] = "compute"
    ]_vars

(***************************************************************************)
(* C9 as stated: cache_info removes an entry (here: the entry stored by    *)
(* the miss completed last) if and only if lifetime is not None and the    *)
(* time since the call that inserted it exceeds lifetime.                  *)
(***************************************************************************)
C9_SweepExact ==
  [][ \A t \in Threads :
        ( /\ InfoSweep(t)
          /\ ~Disabled
          /\ last.op = "miss"
          /\ Head(todo[t]) = KeyOf(last.call, typed) ) =>
          ( (Head(todo[t]) \notin KeySet(cache'))
              <=> (~IsNone(lifetime) /\ clock - last.at > Val(lifetime)) )
    ]_vars

(***************************************************************************)
(* C10.  cache_info does not count: no step of cache_info changes hits,    *)
(* misses or expired, also when the sweep removes entries, and the tuple   *)
(* returned is (hits, misses, maxsize, size of the store after the sweep,  *)
(* lifetime, expired); maxsize and lifetime never change after             *)
(* construction.                                                           *)
(***************************************************************************)
C10_InfoDoesNotCount ==
  [][ /\ \A t \in Threads :
           (InfoAcquire(t) \/ InfoSweep(t) \/ InfoReturn(t)) => stats' = stats
      /\ \A t \in Threads :
           InfoReturn(t) =>
             /\ last'.op = "info"
             /\ last'.val = <<hits', misses', maxsize', Len(cache'), lifetime', expired'>>
      /\ config' = config
    ]_vars

\* cache_info returned after its sweep had emptied a store whose entries
\* had been hit and never found stale by a call.
C10_Witness ==
  /\ TimedLRU
  /\ last.op = "info"
  /\ hits >= 1
  /\ expired = 0
  /\ last.val[4] = 0

(***************************************************************************)
(* C11.  Failed computation: in the locked wrappers (maxsize not 0) a call *)
(* that reaches the computation has counted exactly one miss and no hit    *)
(* and its key is not in the store; nothing changes the counters or the    *)
(* store while the computation runs; when the computation raises, the      *)
(* failure reaches the caller, the counters stay as they are (the miss is  *)
(* not taken back) and the key is still not in the store.                  *)
(***************************************************************************)
C11_FailedComputation ==
  [][ /\ \A t \in Threads, c \in Calls :
           (Lookup(t, c) /\ pc'[t] = "compute") =>
             /\ misses' = misses + 1
             /\ hits' = hits
             /\ KeyOf(c, typed) \notin KeySet(cache')
      /\ \A t \in Threads :
           (pc[t] = "compute" /\ pc'[t] = "compute") =>
             (stats' = stats /\ cache' = cache)
      /\ \A t \in Threads :
           (Compute(t) /\ last'.op # "miss") =>
             /\ last' = Last("fail", call[t], <<>>, began[t], FALSE, FALSE)
             /\ stats' = stats
             /\ cache' = cache
             /\ KeyOf(call[t], typed) \notin KeySet(cache')
             /\ lock' = 0
    ]_vars

\* A computation raised for a key never stored, other keys being stored
\* and hit before.
C11_Witness ==
  /\ ~Disabled
  /\ last.op = "fail"
  /\ misses >= 2 /\ hits >= 1
  /\ cache # <<>>
  /\ KeyOf(last.call, typed) \notin KeySet(cache)

(***************************************************************************)
(* C12 as stated: in every wrapper, the disabled one included, a call with *)
(* an unhashable argument fails with the key error, does not invoke the    *)
(* computation and leaves the store, its order and the counters unchanged. *)
(***************************************************************************)
C12_Original ==
  [][ \A t \in Threads, c \in Calls :
        ((Lookup(t, c) \/ DisabledCall(t, c)) /\ ~Hashable(c)) =>
          /\ last'.op = "TypeError"
          /\ stats' = stats
          /\ cache' = cache
          /\ recency' = recency
    ]_vars

(***************************************************************************)
(* C12, amended.  In the locked wrappers (unbounded, Basic LRU, Timed LRU) *)
(* a call with an unhashable argument fails with the TypeError of the      *)
(* store lookup, which runs under the lock: the call goes ahead only when  *)
(* the lock is free and leaves it free; the computation is not invoked and *)
(* the store, its order and the counters are unchanged.  The disabled      *)
(* wrapper builds no key: the call counts a miss and goes to the           *)
(* computation like any other.                                             *)
(***************************************************************************)
C12_KeyError ==
  [][ /\ \A t \in Threads, c \in Calls :
           (Lookup(t, c) /\ ~Hashable(c)) =>
             /\ lock = 0 /\ lock' = 0
             /\ last' = Last("TypeError", c, <<>>, 0, FALSE, FALSE)
             /\ pc' = pc
             /\ stats' = stats
             /\ cache' = cache
             /\ recency' = recency
      /\ \A t \in Threads, c \in Calls :
           (DisabledCall(t, c) /\ ~Hashable(c)) =>
             /\ misses' = tmp[t] + 1
             /\ last'.op \in {"miss", "fail"}
             /\ last'.call = c
    ]_vars

\* A call with an unhashable argument raised on a store that holds entries
\* and has served hits.
C12_Witness ==
  /\ last.op = "TypeError"
  /\ ~Hashable(last.call)
  /\ cache # <<>>
  /\ hits >= 1 /\ misses >= 1

(***************************************************************************)
(* C13 as stated: no counter update is lost.  Every call that completes in *)
(* the disabled wrapper leaves misses one above what it was, also when     *)
(* other calls or a cache_clear ran meanwhile, and every call looked up in *)
(* a locked wrapper adds one to hits + misses.                             *)
(***************************************************************************)
C13_NoLostUpdate ==
  [][ /\ \A t \in Threads, c \in Calls :
           DisabledCall(t, c) => misses' = misses + 1
      /\ \A t \in Threads, c \in Calls :
           (Lookup(t, c) /\ Hashable(c)) => hits' + misses' = hits + misses + 1
    ]_vars

(***************************************************************************)
(* C14 as stated: with maxsize = 0 (a negative maxsize included) every     *)
(* call increments misses by one and invokes the computation, whatever its *)
(* arguments, and hits and expired stay 0 and the store stays empty.       *)
(***************************************************************************)
C14_DisabledCache ==
  [][ Disabled =>
        /\ hits' = 0 /\ expired' = 0 /\ cache' = <<>>
        /\ \A t \in Threads, c \in Calls :
             DisabledCall(t, c) =>
               /\ last'.op \in {"miss", "fail"}
               /\ last'.call = c
               /\ misses' - misses = 1
    ]_vars

\* In the store, every miss so far is an entry or a computation in progress.
MissesAreEntries ==
  misses = Len(cache) + Cardinality({t \in Threads : pc[t] = "compute"})

(***************************************************************************)
(* C15.  Unbounded cache: with maxsize None and lifetime None no step but  *)
(* cache_clear removes an entry (cache_info does not); a call whose key is *)
(* stored is a hit, whatever the order of the calls, and a call whose key  *)
(* is not stored is a miss whose computation, when it returns, adds one    *)
(* entry for the key; keys are stored once; expired stays 0; and as long   *)
(* as no computation fails, misses is the number of entries (counting the  *)
(* one about to be stored by a computation in progress).                   *)
(***************************************************************************)
C15_Unbounded ==
  [][ (IsNone(maxsize) /\ IsNone(lifetime)) =>
        /\ expired' = 0
        /\ (KeySet(cache) \subseteq KeySet(cache')) \/ (\E t \in Threads : Clear(t))
        /\ Cardinality(KeySet(cache')) = Len(cache')
        /\ \A t \in Threads, c \in Calls :
             (Lookup(t, c) /\ Hashable(c)) =>
               IF KeyOf(c, typed) \in KeySet(cache)
                 THEN hits' = hits + 1 /\ misses' = misses /\ pc' = pc /\ cache' = cache
                 ELSE misses' = misses + 1 /\ hits' = hits /\ pc'[t] = "compute"
                      /\ cache' = cache
        /\ \A t \in Threads :
             (Compute(t) /\ last'.op = "miss") =>
               /\ Len(cache') = Len(cache) + 1
               /\ KeySet(cache') = KeySet(cache) \cup {KeyOf(call[t], typed)}
        /\ (MissesAreEntries /\ ~(\E t \in Threads : Compute(t) /\ last'.op = "fail"))
             => MissesAreEntries'
    ]_vars

\* cache_info reports two entries for two misses, after a hit, on the
\* unbounded cache.
C15_Witness ==
  /\ IsNone(maxsize) /\ IsNone(lifetime)
  /\ last.op = "info"
  /\ last.val[4] = 2
  /\ misses = 2 /\ hits >= 1 /\ expired = 0
  /\ MissesAreEntries

(***************************************************************************)
(* C16.  No operation blocks indefinitely: under fair scheduling, with a   *)
(* computation that returns or raises, every thread inside a call or a     *)
(* cache_info gets to the end of it (cache_clear is one step), a lock that *)
(* is held is released, so that an operation waiting for it can go on, and *)
(* an operation that used the lock leaves it free when it ends, also a     *)
(* call that ends with a failed computation or a key error (the disabled   *)
(* wrapper's calls never use the lock).                                    *)
(***************************************************************************)
C16_NoBlocking ==
  /\ \A t \in Threads : (pc[t] # "idle") ~> (pc[t] = "idle")
  /\ (lock # 0) ~> (lock = 0)
  /\ [][ (last' # last /\ (Disabled => last'.op \in {"info", "clear"}))
           => lock' = 0 ]_vars

\* Both threads are idle and the lock is free after a failed computation
\* that followed a key error.
C16_Witness ==
  /\ ~Disabled
  /\ last.op = "fail"
  /\ lock = 0
  /\ \A t \in Threads : pc[t] = "idle"
  /\ misses >= 1

\* Calls c and d have arguments that compare equal, one by one, and are
\* not the same call: they differ in the runtime type of an argument.
DifferInTypeOnly(c, d) ==
  /\ c # d
  /\ Hashable(c) /\ Hashable(d)
  /\ Len(CallTable[c].args) = Len(CallTable[d].args)
  /\ Len(CallTable[c].kwargs) = Len(CallTable[d].kwargs)
  /\ \A i \in 1..Len(CallTable[c].args) :
       CallTable[c].args[i].val = CallTable[d].args[i].val
  /\ \A i \in 1..Len(CallTable[c].kwargs) :
       /\ CallTable[c].kwargs[i].name = CallTable[d].kwargs[i].name
       /\ CallTable[c].kwargs[i].value.val = CallTable[d].kwargs[i].value.val

(***************************************************************************)
(* C17.  Typed separation: with typed = True, a call made right after the  *)
(* first miss of a cache, with arguments that compare equal to that miss's *)
(* but differ in runtime type (1 and 1.0, positional or keyword), is a     *)
(* second miss and no hit; the two calls have different keys, and when its *)
(* computation returns both keys are stored, as two entries, on a cache    *)
(* with room for two.                                                      *)
(***************************************************************************)
C17_TypedSeparation ==
  [][ typed =>
        /\ \A t \in Threads, c \in Calls :
             ( /\ Lookup(t, c)
               /\ last.op = "miss"
               /\ DifferInTypeOnly(last.call, c)
               /\ hits = 0 /\ misses = 1 ) =>
               /\ pc'[t] = "compute"
               /\ misses' = 2
               /\ hits' = 0
        /\ \A t \in Threads :
             ( /\ Compute(t)
               /\ last.op = "miss"
               /\ DifferInTypeOnly(last.call, call[t])
               /\ last'.op = "miss"
               /\ (IsNone(maxsize) \/ Val(maxsize) >= 2) ) =>
               /\ KeyOf(last.call, typed) # KeyOf(call[t], typed)
               /\ {KeyOf(last.call, typed), KeyOf(call[t], typed)} \subseteq KeySet(cache')
               /\ Len(cache') >= 2
    ]_vars

\* Two calls with keyword arguments a=1 and a=1.0 were two misses and left
\* two entries.
C17_Witness ==
  /\ typed
  /\ last.op = "miss"
  /\ CallTable[last.call].kwargs # <<>>
  /\ misses = 2 /\ hits = 0
  /\ Len(cache) = 2
  /\ \E c \in Calls : DifferInTypeOnly(c, last.call) /\ KeyOf(c, typed) \in KeySet(cache)

\* The timestamp stored with key k in cache c.
TimeOf(c, k) == c[cache_get(c, k)].time

(***************************************************************************)
(* C18.  A hit does not renew an entry: in the timed wrapper a fresh hit   *)
(* moves the entry, result and timestamp as they are, to the               *)
(* most-recently-used end; no step changes the timestamp of a key that     *)
(* stays stored; the timestamp is the clock reading of the call that       *)
(* inserted the entry; and a call whose key is stored is a hit when the    *)
(* clock is at most lifetime past the timestamp and a stale miss when it   *)
(* is more, whatever hits the entry had.                                   *)
(***************************************************************************)
C18_HitDoesNotRenew ==
  [][ TimedLRU =>
        /\ \A t \in Threads, c \in Calls :
             (TLRULookup(t, c) /\ Hashable(c) /\ KeyOf(c, typed) \in KeySet(cache)) =>
               IF clock - TimeOf(cache, KeyOf(c, typed)) <= Val(lifetime)
                 THEN /\ hits' = hits + 1 /\ expired' = expired /\ misses' = misses
                      /\ cache'[Len(cache')] = cache[cache_get(cache, KeyOf(c, typed))]
                 ELSE /\ hits' = hits /\ expired' = expired + 1 /\ misses' = misses + 1
                      /\ KeyOf(c, typed) \notin KeySet(cache')
        /\ \A k \in KeySet(cache) \cap KeySet(cache') :
             TimeOf(cache', k) = TimeOf(cache, k)
        /\ \A t \in Threads :
             (Compute(t) /\ last'.op = "miss") =>
               TimeOf(cache', KeyOf(call[t], typed)) = began[t]
    ]_vars

\* A key is found stale by the call that follows a hit of the same key.
C18_Witness ==
  \E t \in Threads :
    /\ TimedLRU
    /\ pc[t] = "compute"
    /\ path[t] = "stale"
    /\ last.op = "hit"
    /\ KeyOf(last.call, typed) = KeyOf(call[t], typed)
    /\ hits >= 1 /\ expired = 1

(***************************************************************************)
(* C19 as stated: in the timed wrapper the entry inserted on a miss        *)
(* carries the time at which it is inserted, after the computation has     *)
(* returned: its age at insertion is 0.                                    *)
(***************************************************************************)
C19_InsertionTime ==
  [][ \A t \in Threads :
        (TimedLRU /\ Compute(t) /\ last'.op = "miss") =>
          clock' - TimeOf(cache', KeyOf(call[t], typed)) = 0
    ]_vars

(***************************************************************************)
(* C20 as stated: with typed = False, a call has the key of a stored entry *)
(* exactly when the keys without the unwrapping of the fast path (the      *)
(* tuples of the arguments) are equal.                                     *)
(***************************************************************************)
C20_FastPathPreservesEquality ==
  ~typed =>
    \A i \in 1..Len(cache), c \in Calls :
      Hashable(c) =>
        ( (cache[i].key = KeyOf(c, typed))
            <=> (cache[i].key.elems = KeyOf(c, typed).elems) )

(***************************************************************************)
(* C21.  A failed computation is not effect-free on the store.  In the     *)
(* bounded wrappers a call for an absent key that finds the store at       *)
(* maxsize removes the least-recently-used entry before the computation is *)
(* invoked, and in the timed wrapper a call for a stale key removes the    *)
(* stale entry and counts it as expired before the computation is invoked; *)
(* when the computation raises nothing is put back: the store holds        *)
(* maxsize - 1 entries, the evicted entry not among them, or the stale     *)
(* key's entry is gone, and expired keeps its increment.                   *)
(***************************************************************************)
C21_FailureKeepsRemoval ==
  [][ /\ \A t \in Threads, c \in Calls :
           ( /\ LRULookup(t, c) \/ TLRULookup(t, c)
             /\ Hashable(c)
             /\ KeyOf(c, typed) \notin KeySet(cache)
             /\ Len(cache) = Val(maxsize) ) =>
             /\ pc'[t] = "compute" /\ path'[t] = "evict"
             /\ cache' = Tail(cache)
             /\ Head(cache).key = Head(recency)
             /\ Head(cache).key \notin KeySet(cache')
      /\ \A t \in Threads, c \in Calls :
           (TLRULookup(t, c) /\ StaleCall(c)) =>
             /\ pc'[t] = "compute" /\ path'[t] = "stale"
             /\ expired' = expired + 1
             /\ KeyOf(c, typed) \notin KeySet(cache')
      /\ \A t \in Threads :
           (pc[t] = "compute" /\ pc'[t] = "compute") =>
             (cache' = cache /\ expired' = expired /\ path'[t] = path[t])
      /\ \A t \in Threads :
           (Compute(t) /\ last'.op = "fail") =>
             /\ cache' = cache
             /\ expired' = expired
             /\ path[t] = "evict" => Len(cache') = Val(maxsize) - 1
             /\ path[t] = "stale" => KeyOf(call[t], typed) \notin KeySet(cache')
    ]_vars

\* The one entry of the store was found stale by a call whose computation
\* failed: the store is empty and expired is 1.
C21_Witness ==
  /\ TimedLRU
  /\ last.op = "fail"
  /\ misses = 2 /\ hits = 0 /\ expired = 1
  /\ cache = <<>>

\* A step of the nested operation of thread t.
NestedStep(t) == NestedLoad(t) \/ NestedStore(t) \/ NestedInfo(t) \/ NestedClear(t)

(***************************************************************************)
(* C22.  Re-entrancy.  In the locked wrappers (maxsize not 0) a            *)
(* computation that calls the wrapped function, cache_info or cache_clear  *)
(* of its own cache does so with the lock held by its own thread: the      *)
(* nested operation never gets the lock, the thread stays where it is, and *)
(* no other thread's call, cache_info or cache_clear goes ahead either     *)
(* (nothing but the clock changes).  In the maxsize == 0 wrapper the       *)
(* computation runs without the lock: the nested operation is never held   *)
(* up by its own thread, it can go ahead whenever the lock is free, and    *)
(* when it does the call comes to its end.                                 *)
(***************************************************************************)
C22_Reentrancy ==
  [][ \A t \in Threads :
        /\ (~Disabled /\ pc[t] \in NestedOps) =>
             /\ lock = t
             /\ ~ENABLED NestedStep(t)
             /\ pc' = pc /\ lock' = lock
             /\ cache' = cache /\ stats' = stats /\ last' = last
        /\ (Disabled /\ pc[t] \in NestedOps \cup {"nested_store"}) =>
             /\ lock # t
             /\ ( \/ pc[t] \in {"nested_info", "nested_clear"} /\ lock = 0
                  \/ pc[t] = "nested_call" /\ misses < MaxCount
                  \/ pc[t] = "nested_store" ) => ENABLED NestedStep(t)
             /\ NestedStep(t) =>
                  \/ pc[t] = "nested_call" /\ pc'[t] = "nested_store"
                  \/ pc'[t] = "idle" /\ \E c \in Calls : last' = Reentered(c)
    ]_vars

\* A computation of a locked wrapper is at its nested call of the wrapped
\* function, the store holding entries: its thread holds the lock and the
\* other threads are idle.
C22_Witness ==
  \E t \in Threads :
    /\ ~Disabled
    /\ pc[t] = "nested_call"
    /\ lock = t
    /\ cache # <<>>
    /\ \A u \in Threads \ {t} : pc[u] = "idle"

====
